---- MODULE Spec2Model ----
(***************************************************************************)
(* Runtime resolution engine of teflo (src/teflo/helpers.py):              *)
(*   - the reference resolver  fetch_assets / fetch_executes,              *)
(*   - the expression evaluator  DataInjector.inject.                      *)
(*                                                                         *)
(* Python strings are modelled as sequences of one-character strings, so   *)
(* that substring tests, regular-expression scans, splitting, stripping    *)
(* and replacement are computed character by character as the code does.   *)
(***************************************************************************)
EXTENDS Integers, Sequences, FiniteSets, TLC

VARIABLES
    hosts,      \* the scenario's host resources (a list)
    executes,   \* the scenario's execute resources (a list, mutable objects)
    task,       \* the task being resolved: hosts, all_hosts, executes
    op,         \* the last operation that ran
    prev,       \* task and executes as they were before the last operation
    calls,      \* number of operations run so far
    command,    \* the text handed to DataInjector.inject
    parts,      \* the pieces command was assembled from
    result,     \* what inject returned or raised
    data,       \* the dict or list handed to inject_dictionary / inject_list
    injected,   \* what inject_dictionary / inject_list returned or raised
    action_list,    \* argument of filter_actions_on_failed_status
    res_list,       \* argument of filter_resources_labels
    teflo_options,  \* the options of the run (labels, skip_labels)
    notify_list,    \* the scenario's notifications
    passed_tasks,   \* names of the tasks that passed, in completion order
    failed_tasks,   \* names of the tasks that failed, in completion order
    state,          \* the trigger state of the last notification filter
    filtered        \* what the last filter returned or raised

structVars == <<data, injected>>
filterVars == <<action_list, res_list, teflo_options, notify_list,
                passed_tasks, failed_tasks, state, filtered>>

vars == <<hosts, executes, task, op, prev, calls, command, parts, result,
          structVars, filterVars>>

----------------------------------------------------------------------------
(* Bounds *)

MaxHosts == 3      \* longest host list
MaxRefs == 2       \* longest reference list of a task
MaxCalls == 2      \* resolver calls per run
MaxPieces == 2     \* pieces of text per command

----------------------------------------------------------------------------
(* Sequence helpers *)

Range(s) == {s[i] : i \in 1..Len(s)}

RECURSIVE SeqsUpTo(_, _)
\* All sequences over S of length at most n.
SeqsUpTo(S, n) ==
    IF n = 0 THEN {<<>>}
    ELSE LET shorter == SeqsUpTo(S, n - 1)
         IN  shorter \cup {Append(s, x) : s \in shorter, x \in S}

DistinctSeqsUpTo(S, n) ==
    {s \in SeqsUpTo(S, n) : \A i, j \in 1..Len(s) : i # j => s[i] # s[j]}

RECURSIVE Flatten(_)
Flatten(ss) == IF ss = <<>> THEN <<>> ELSE Head(ss) \o Flatten(Tail(ss))

\* Python `sub in s` for strings: sub occurs as a contiguous slice of s
\* (the empty string occurs in every string).
IsSubstring(sub, s) ==
    \E i \in 0..(Len(s) - Len(sub)) : SubSeq(s, i + 1, i + Len(sub)) = sub

----------------------------------------------------------------------------
(* The resource graph *)

S_all == <<"a", "l", "l">>

\* A reference held in a task's list: a plain string of the scenario
\* descriptor, or an object carrying a name.
Str(n) == [k |-> "str", v |-> n]
Obj(o) == [k |-> "obj", v |-> o]

IsStr(r) == r.k = "str"

\* Host resources: name, groups, and the further attributes read by inject.
Host(n, g, a) == [name |-> n, groups |-> g, attrs |-> a]

\* Attribute values, tagged by their Python type.
VStr(s) == [t |-> "str", v |-> s]
VList(l) == [t |-> "list", v |-> l]
VDict(d) == [t |-> "dict", v |-> d]
VInt(n) == [t |-> "int", v |-> n]
VNone == [t |-> "none", v |-> <<>>]

\* One entry of a dict, or one attribute of an object.
KV(key, val) == [key |-> key, val |-> val]

S_ip == <<"i", "p">>
S_md == <<"m", "d">>
S_os == <<"o", "s">>
S_n == <<"n">>
S_k == <<"k">>
S_addr == <<"1", ".", "5">>
S_addr2 == <<"1", ".", "6">>

H_w ==
    Host(<<"w">>, << <<"g">>, <<"h">> >>,
         << KV(S_ip, VList(<< VStr(S_addr), VStr(S_addr2) >>)),
            KV(S_os, VStr(<<"f">>)),
            KV(S_n, VInt(7)),
            KV(S_md, VDict(<< KV(S_k, VStr(<<"v">>)),
                              KV(S_n, VDict(<< KV(S_k, VStr(<<"x">>)) >>)),
                              KV(<<"l">>, VList(<< VDict(<< KV(S_k, VStr(<<"y">>)) >>),
                                                   VStr(<<"s">>) >>)),
                              KV(<<"e">>, VDict(<<>>)),
                              KV(<<"z">>, VStr(<<>>)) >>)),
            KV(<<"e", "l">>, VList(<<>>)),
            KV(<<"e", "s">>, VStr(<<>>)) >>)

H_w1 ==
    Host(<<"w", "1">>, << <<"g">> >>,
         << KV(S_ip, VList(<< VStr(S_addr2) >>)) >>)

H_d == Host(<<"d">>, <<>>, << KV(S_ip, VList(<<>>)) >>)

\* Objects that carry a name but are no host of any graph.
H_ghost == Host(<<"z">>, <<>>, <<>>)
H_noname == Host(<<>>, <<>>, <<>>)

HostUniverse == {H_w, H_w1, H_d}

\* The scenario's host list: distinct hosts, in any order.
HostLists == DistinctSeqsUpTo(HostUniverse, MaxHosts)

\* Plain-string references of a scenario descriptor: the wildcard, host
\* names, group names, and a name nothing carries.
StrRefs == {Str(S_all), Str(<<"w">>), Str(<<"d">>), Str(<<"g">>),
            Str(<<"h">>), Str(<<"z">>)}

\* Object references: hosts bound earlier, and two foreign objects.
ObjRefs == {Obj(H_w), Obj(H_d), Obj(H_ghost), Obj(H_noname)}

\* A reference list is type-uniform: names from the descriptor, or objects.
HostRefLists == SeqsUpTo(StrRefs, MaxRefs) \cup SeqsUpTo(ObjRefs, MaxRefs)

\* Execute resources: name, hosts (references), all_hosts.
Execute(n, h) == [name |-> n, hosts |-> h, all_hosts |-> <<>>]

E_e == Execute(<<"e">>, << Str(<<"w">>) >>)
E_f == Execute(<<"f">>, << Str(<<"g">>), Str(<<"h">>) >>)
E_x == Execute(<<"x">>, << Str(<<"z">>) >>)

ExecuteLists == DistinctSeqsUpTo({E_e, E_f, E_x}, 2)

\* References to executes: names, or execute objects (identified by name).
ExecStrRefs == {Str(<<"e">>), Str(<<"f">>), Str(<<"y">>)}
ExecObjRefs == {Obj(<<"e">>), Obj(<<"y">>)}
ExecRefLists == SeqsUpTo(ExecStrRefs, MaxRefs) \cup SeqsUpTo(ExecObjRefs, MaxRefs)

Task(h, e) == [hosts |-> h, all_hosts |-> <<>>, executes |-> e]

----------------------------------------------------------------------------
(* Reference resolver *)

\* Python `x in refs` for a list of plain strings.
InRefs(n, refs) == \E i \in 1..Len(refs) : refs[i] = Str(n)

RECURSIVE GroupMatches(_, _)
\* helpers.py 730-732: one append per group of the host found in the list.
GroupMatches(groups, refs) ==
    IF groups = <<>> THEN 0
    ELSE (IF InRefs(Head(groups), refs) THEN 1 ELSE 0)
         + GroupMatches(Tail(groups), refs)

RECURSIVE Repeat(_, _)
Repeat(x, n) == IF n = 0 THEN <<>> ELSE <<x>> \o Repeat(x, n - 1)

\* Mutant: the wildcard test of line 723 is lost.
SelectByString_NoWildcard(host, refs) ==
    IF InRefs(host.name, refs) THEN <<host>>
    ELSE Repeat(host, GroupMatches(host.groups, refs))

\* Mutant: the group loop of lines 729-732 is lost.
SelectByString_NoGroups(host, refs) ==
    IF InRefs(S_all, refs) THEN <<host>>
    ELSE IF InRefs(host.name, refs) THEN <<host>>
    ELSE <<>>

\* helpers.py 721-732: what one host adds to _hosts in plain-string mode.
SelectByString(host, refs) ==
    IF InRefs(S_all, refs) THEN <<host>>
    ELSE IF InRefs(host.name, refs) THEN <<host>>
    ELSE Repeat(host, GroupMatches(host.groups, refs))

\* helpers.py 737-742: what one host adds to _hosts in object mode.
SelectByObject(host, refs) ==
    IF \E i \in 1..Len(refs) :
           host.name = refs[i].v.name \/ IsSubstring(refs[i].v.name, host.name)
    THEN <<host>>
    ELSE <<>>

RECURSIVE SelectHosts_Prepend(_, _)
\* Mutant: each match is inserted at the front of _hosts instead of appended.
SelectHosts_Prepend(hs, refs) ==
    IF hs = <<>> THEN <<>>
    ELSE SelectHosts_Prepend(Tail(hs), refs)
         \o (IF \A i \in 1..Len(refs) : IsStr(refs[i])
             THEN SelectByString(Head(hs), refs)
             ELSE SelectByObject(Head(hs), refs))

RECURSIVE SelectHosts(_, _)
\* helpers.py 719-742: the list _hosts.
SelectHosts(hs, refs) ==
    IF hs = <<>> THEN <<>>
    ELSE (IF \A i \in 1..Len(refs) : IsStr(refs[i])
          THEN SelectByString(Head(hs), refs)
          ELSE SelectByObject(Head(hs), refs))
         \o SelectHosts(Tail(hs), refs)

\* Mutant: the guard `if _hosts:` of line 743 is lost.
fetch_assets_AlwaysOverwrite(hs, res, all_hosts) ==
    LET _hosts == SelectHosts(hs, res.hosts)
    IN  [res EXCEPT !.hosts = [i \in 1..Len(_hosts) |-> Obj(_hosts[i])],
                    !.all_hosts = IF all_hosts THEN hs ELSE <<>>]

\* helpers.py 686-746. res is task[_type]: any object with hosts, all_hosts.
fetch_assets(hs, res, all_hosts) ==
    LET _hosts == SelectHosts(hs, res.hosts)
        _all_hosts == IF all_hosts THEN hs ELSE <<>>
    IN  [res EXCEPT !.hosts = IF _hosts # <<>>
                               THEN [i \in 1..Len(_hosts) |-> Obj(_hosts[i])]
                               ELSE @,
                    !.all_hosts = _all_hosts]

\* helpers.py 780-797: is execute e named by the task's list.
ExecuteMatches(e, refs) ==
    IF \A i \in 1..Len(refs) : IsStr(refs[i])
    THEN InRefs(e.name, refs)
    ELSE \E i \in 1..Len(refs) : e.name = refs[i].v

\* Mutant: every execute is resolved, matched or not.
ResolveExecutes_All(es, hs, refs) ==
    [i \in 1..Len(es) |-> fetch_assets(hs, es[i], TRUE)]

\* helpers.py 784-786, 793-795: a matched execute is resolved in place as a
\* nested task; the others are left alone.
ResolveExecutes(es, hs, refs) ==
    [i \in 1..Len(es) |->
        IF ExecuteMatches(es[i], refs) THEN fetch_assets(hs, es[i], TRUE)
        ELSE es[i]]

RECURSIVE MatchedExecutes_Prepend(_, _)
\* Mutant: each match is inserted at the front of _executes.
MatchedExecutes_Prepend(es, refs) ==
    IF es = <<>> THEN <<>>
    ELSE MatchedExecutes_Prepend(Tail(es), refs)
         \o (IF ExecuteMatches(Head(es), refs) THEN <<Obj(Head(es).name)>> ELSE <<>>)

RECURSIVE MatchedExecutes(_, _)
\* helpers.py 787, 796: the list _executes, as references to the objects.
MatchedExecutes(es, refs) ==
    IF es = <<>> THEN <<>>
    ELSE (IF ExecuteMatches(Head(es), refs) THEN <<Obj(Head(es).name)>> ELSE <<>>)
         \o MatchedExecutes(Tail(es), refs)

\* Mutant: the fallback of lines 799-803 is lost.
fetch_executes_NoFallback(es, hs, t) ==
    LET _executes == MatchedExecutes(es, t.executes)
    IN  [task |-> IF _executes = <<>>
                  THEN t
                  ELSE [t EXCEPT !.executes = _executes],
         executes |-> ResolveExecutes(es, hs, t.executes)]

\* helpers.py 749-806: the task and the execute resources after the call.
fetch_executes(es, hs, t) ==
    LET _executes == MatchedExecutes(es, t.executes)
    IN  [task |-> IF _executes = <<>>
                  THEN [t EXCEPT !.all_hosts = hs]
                  ELSE [t EXCEPT !.executes = _executes],
         executes |-> ResolveExecutes(es, hs, t.executes)]

----------------------------------------------------------------------------
(* The resolver as a state machine *)

NoResult == [st |-> "none", text |-> <<>>, exc |-> "", msg |-> ""]

\* The parts of the state an operation family does not use stay as built.
StructIdle == data = VNone /\ injected = NoResult

FilterIdle ==
    /\ action_list = <<>>
    /\ res_list = <<>>
    /\ teflo_options = [is_none |-> TRUE, items |-> <<>>]
    /\ notify_list = <<>>
    /\ passed_tasks = <<>>
    /\ failed_tasks = <<>>
    /\ state = ""
    /\ filtered = NoResult

ResolveIdle ==
    /\ executes = <<>>
    /\ task = Task(<<>>, <<>>)
    /\ prev = [task |-> task, executes |-> executes]
    /\ calls = 0

InjectIdle == command = <<>> /\ parts = <<>> /\ result = NoResult

InitResolve ==
    /\ hosts \in HostLists
    /\ executes \in ExecuteLists
    /\ task \in {Task(h, <<>>) : h \in HostRefLists}
                \cup {Task(<<>>, e) : e \in ExecRefLists}
    /\ op = "init"
    /\ prev = [task |-> task, executes |-> executes]
    /\ calls = 0
    /\ command = <<>>
    /\ parts = <<>>
    /\ result = NoResult
    /\ StructIdle
    /\ FilterIdle

\* fetch_assets(hosts, task): all_hosts keeps its default (True), as at
\* every call site of the module (786, 795).
FetchAssets ==
    /\ calls < MaxCalls
    /\ task' = fetch_assets(hosts, task, TRUE)
    /\ prev' = [task |-> task, executes |-> executes]
    /\ op' = "fetch_assets"
    /\ calls' = calls + 1
    /\ UNCHANGED <<hosts, executes, command, parts, result, structVars, filterVars>>

\* fetch_executes(executes, hosts, task)
FetchExecutes ==
    /\ calls < MaxCalls
    /\ LET r == fetch_executes(executes, hosts, task)
       IN  /\ task' = r.task
           /\ executes' = r.executes
    /\ prev' = [task |-> task, executes |-> executes]
    /\ op' = "fetch_executes"
    /\ calls' = calls + 1
    /\ UNCHANGED <<hosts, command, parts, result, structVars, filterVars>>

Next == FetchAssets \/ FetchExecutes

Spec == InitResolve /\ [][Next]_vars

----------------------------------------------------------------------------
(* Python string operations used by DataInjector *)

Whitespace == {" ", "\t", "\n", "\r"}

RECURSIVE LStrip(_)
LStrip(s) ==
    IF s # <<>> /\ Head(s) \in Whitespace THEN LStrip(Tail(s)) ELSE s

RECURSIVE RStrip(_)
RStrip(s) ==
    IF s # <<>> /\ s[Len(s)] \in Whitespace
    THEN RStrip(SubSeq(s, 1, Len(s) - 1))
    ELSE s

\* str.strip
Strip(s) == RStrip(LStrip(s))

StartsWith(s, p) == Len(s) >= Len(p) /\ SubSeq(s, 1, Len(p)) = p

\* Index of the first c in s, 0 when there is none.
IndexOf(s, c) ==
    IF \E i \in 1..Len(s) : s[i] = c
    THEN CHOOSE i \in 1..Len(s) : s[i] = c /\ \A j \in 1..(i - 1) : s[j] # c
    ELSE 0

RECURSIVE Split(_, _)
\* str.split(c) for a one-character separator: always at least one field.
Split(s, c) ==
    LET i == IndexOf(s, c)
    IN  IF i = 0 THEN <<s>>
        ELSE <<SubSeq(s, 1, i - 1)>> \o Split(SubSeq(s, i + 1, Len(s)), c)

RECURSIVE Replace(_, _, _)
\* str.replace(old, new) for a non-empty old: every occurrence, left to right.
Replace(s, old, new) ==
    IF Len(s) < Len(old) THEN s
    ELSE IF StartsWith(s, old)
         THEN new \o Replace(SubSeq(s, Len(old) + 1, Len(s)), old, new)
         ELSE <<Head(s)>> \o Replace(Tail(s), old, new)

Digits == <<"0", "1", "2", "3", "4", "5", "6", "7", "8", "9">>

IsDigit(c) == \E d \in 1..Len(Digits) : Digits[d] = c

DigitValue(c) == (CHOOSE d \in 1..Len(Digits) : Digits[d] = c) - 1

RECURSIVE Decimal(_)
Decimal(ds) ==
    IF ds = <<>> THEN 0
    ELSE 10 * Decimal(SubSeq(ds, 1, Len(ds) - 1)) + DigitValue(ds[Len(ds)])

\* int(s): surrounding whitespace, an optional sign, decimal digits
\* (digit-group underscores are not modelled).  ok = FALSE is ValueError.
ParseInt(s) ==
    LET t == Strip(s)
        signed == t # <<>> /\ Head(t) \in {"+", "-"}
        ds == IF signed THEN Tail(t) ELSE t
    IN  IF ds # <<>> /\ \A i \in 1..Len(ds) : IsDigit(ds[i])
        THEN [ok |-> TRUE,
              val |-> IF signed /\ Head(t) = "-" THEN 0 - Decimal(ds) ELSE Decimal(ds)]
        ELSE [ok |-> FALSE, val |-> 0]

\* Where seq[pos] lands in a sequence of length n (1-based), 0 for IndexError.
PyIndex_OneBased(n, pos) == IF 1 <= pos /\ pos <= n THEN pos ELSE 0

PyIndex(n, pos) ==
    IF 0 <= pos /\ pos < n THEN pos + 1
    ELSE IF 0 - n <= pos /\ pos < 0 THEN n + pos + 1
    ELSE 0

----------------------------------------------------------------------------
(* DataInjector *)

\* helpers.py 995: re.findall(r"\{(.*?)\}", command).  The end of the match
\* that opens at i: the nearest "}" with no line break before it ("." does
\* not match "\n"); 0 when the brace at i opens no match.
CloseAt(s, i) ==
    LET ends == {j \in (i + 1)..Len(s) :
                    s[j] = "}" /\ \A k \in (i + 1)..(j - 1) : s[k] # "\n"}
    IN  IF ends = {} THEN 0 ELSE CHOOSE j \in ends : \A k \in ends : j <= k

RECURSIVE FindAllFrom(_, _)
FindAllFrom(s, i) ==
    IF i > Len(s) THEN <<>>
    ELSE IF s[i] = "{" /\ CloseAt(s, i) # 0
         THEN <<SubSeq(s, i + 1, CloseAt(s, i) - 1)>> \o FindAllFrom(s, CloseAt(s, i) + 1)
         ELSE FindAllFrom(s, i + 1)

\* helpers.py 1026: the captured groups, in order of appearance.
FindAll(s) == FindAllFrom(s, 1)

\* \w for the characters of the model.
WordChars ==
    {"a", "b", "c", "d", "e", "f", "g", "h", "i", "j", "k", "l", "m", "n", "o",
     "p", "q", "r", "s", "t", "u", "v", "w", "x", "y", "z", "_",
     "0", "1", "2", "3", "4", "5", "6", "7", "8", "9"}

S_range == <<"r", "a", "n", "g", "e">>

\* Mutant: the character class of the second alternative loses "|".
Excluded_NoPipe(variable) ==
    \/ StartsWith(variable, S_range)
    \/ variable # <<>> /\ Head(variable) \in {".", "$", "@"}
    \/ \E n \in 1..(Len(variable) - 1) :
           /\ \A i \in 1..n : variable[i] \in WordChars \cup {"|", "'"}
           /\ variable[n + 1] = ":"

\* helpers.py 998, 1032: re.match(r"^range|^[|.|$|@]|[\w|']+:", variable),
\* anchored at the start of the variable.
Excluded(variable) ==
    \/ StartsWith(variable, S_range)
    \/ variable # <<>> /\ Head(variable) \in {"|", ".", "$", "@"}
    \/ \E n \in 1..(Len(variable) - 1) :
           /\ \A i \in 1..n : variable[i] \in WordChars \cup {"|", "'"}
           /\ variable[n + 1] = ":"

\* Mutant: an unknown node falls back to the first host instead of raising.
host_exist_Fallback(node, hs) ==
    IF \E i \in 1..Len(hs) : hs[i].name = node
    THEN [found |-> TRUE,
          host |-> hs[CHOOSE i \in 1..Len(hs) :
                         hs[i].name = node /\ \A j \in 1..(i - 1) : hs[j].name # node]]
    ELSE IF hs # <<>> THEN [found |-> TRUE, host |-> hs[1]]
    ELSE [found |-> FALSE, host |-> H_noname]

\* helpers.py 1000-1013: the first host of that name; found = FALSE is
\* TefloError('Node %s not found!').
host_exist(node, hs) ==
    IF \E i \in 1..Len(hs) : hs[i].name = node
    THEN [found |-> TRUE,
          host |-> hs[CHOOSE i \in 1..Len(hs) :
                         hs[i].name = node /\ \A j \in 1..(i - 1) : hs[j].name # node]]
    ELSE [found |-> FALSE, host |-> H_noname]

S_name == <<"n", "a", "m", "e">>
S_groups == <<"g", "r", "o", "u", "p", "s">>

\* The entry of a dict (or attribute list) under a key, <<>> when absent.
Lookup(d, key) ==
    IF \E i \in 1..Len(d) : d[i].key = key
    THEN <<d[CHOOSE i \in 1..Len(d) : d[i].key = key].val>>
    ELSE <<>>

\* hasattr(host, key) / getattr(host, key) over the host's data attributes.
HasAttr(host, key) ==
    key \in {S_name, S_groups} \/ Lookup(host.attrs, key) # <<>>

GetAttr(host, key) ==
    IF key = S_name THEN VStr(host.name)
    ELSE IF key = S_groups
         THEN VList([i \in 1..Len(host.groups) |-> VStr(host.groups[i])])
    ELSE Lookup(host.attrs, key)[1]

\* Python truth value (`if value:`).
Truthy(value) ==
    CASE value.t = "none" -> FALSE
      [] value.t = "int" -> value.v # 0
      [] OTHER -> value.v # <<>>

Got(v) == [k |-> "ok", value |-> v]
Fault(kind) == [k |-> kind, value |-> VNone]

\* value[key] for a string key.
SubscriptKey(value, key) ==
    IF value.t = "dict"
    THEN (IF Lookup(value.v, key) # <<>> THEN Got(Lookup(value.v, key)[1])
          ELSE Fault("KeyError"))
    ELSE Fault("TypeError")

\* value[pos] for an integer pos.
SubscriptInt(value, pos) ==
    CASE value.t = "list" ->
            (IF PyIndex(Len(value.v), pos) # 0
             THEN Got(value.v[PyIndex(Len(value.v), pos)])
             ELSE Fault("IndexError"))
      [] value.t = "str" ->
            (IF PyIndex(Len(value.v), pos) # 0
             THEN Got(VStr(<<value.v[PyIndex(Len(value.v), pos)]>>))
             ELSE Fault("IndexError"))
      [] value.t = "dict" -> Fault("KeyError")
      [] OTHER -> Fault("TypeError")

\* How one path segment ends: go on with the next segment, stop the
\* traversal, or raise.
Cont(v) == [k |-> "cont", value |-> v, exc |-> "", msg |-> ""]
Break(v) == [k |-> "break", value |-> v, exc |-> "", msg |-> ""]
Raise(exc, msg) == [k |-> "raise", value |-> VNone, exc |-> exc, msg |-> msg]

\* helpers.py 1063-1091: the `except IndexError` handler; value is what it
\* was before the segment.
NotAPosition(host, item, index, value) ==
    IF HasAttr(host, item) /\ index <= 0
    THEN (IF GetAttr(host, item).t = "str" THEN Break(GetAttr(host, item))
          ELSE Cont(GetAttr(host, item)))
    ELSE IF value.t = "none" THEN Raise("AttributeError", "not found in host")
    ELSE LET r == SubscriptKey(value, item)
         IN  CASE r.k = "KeyError" -> Raise("TefloError", "not found in value")
               [] r.k = "TypeError" -> Raise("TypeError", "")
               [] OTHER ->
                    IF r.value.t = "dict" THEN Cont(r.value)
                    ELSE IF Truthy(value) THEN Cont(r.value)
                    ELSE Cont(value)

\* The outcome of a subscript inside the try body (1052, 1056).
AfterSubscript(r, host, item, index, value, fromHost) ==
    CASE r.k = "ok" ->
            (IF fromHost /\ r.value.t = "str" THEN Break(r.value) ELSE Cont(r.value))
      [] r.k = "IndexError" -> NotAPosition(host, item, index, value)
      [] r.k = "KeyError" -> Raise("TefloError", "unable to locate item")
      [] OTHER -> Raise("TypeError", "")

\* helpers.py 1044-1093: one iteration of the loop over the path segments.
Segment(host, item, index, value) ==
    LET fields == Split(item, "[")
        key == fields[1]
    IN  IF Len(fields) < 2 THEN NotAPosition(host, item, index, value)
        ELSE LET pos == ParseInt(Split(fields[2], "]")[1])
             IN  IF ~pos.ok THEN Raise("ValueError", "")
                 ELSE IF Truthy(value)
                 THEN LET r == SubscriptKey(value, key)
                      IN  IF r.k = "ok"
                          THEN AfterSubscript(SubscriptInt(r.value, pos.val),
                                              host, item, index, value, FALSE)
                          ELSE AfterSubscript(r, host, item, index, value, FALSE)
                 ELSE IF HasAttr(host, key) /\ index <= 0
                 THEN AfterSubscript(SubscriptInt(GetAttr(host, key), pos.val),
                                     host, item, index, value, TRUE)
                 ELSE Cont(value)

RECURSIVE Walk(_, _, _, _)
\* helpers.py 1043: for index, item in enumerate(_vars).
Walk(_vars, host, index, value) ==
    IF _vars = <<>> THEN Break(value)
    ELSE LET r == Segment(host, Head(_vars), index, value)
         IN  IF r.k = "cont" THEN Walk(Tail(_vars), host, index + 1, r.value)
             ELSE r

\* helpers.py 1036-1093: the value a variable stands for.
Evaluate(variable, hs) ==
    LET _vars == Split(variable, ".")
        node == Head(_vars)
        h == host_exist(node, hs)
    IN  IF ~h.found THEN Raise("TefloError", "node not found")
        ELSE Walk(Tail(_vars), h.host, 0, VNone)

Ok(text) == [st |-> "ok", text |-> text, exc |-> "", msg |-> ""]
Raised(exc, msg) == [st |-> "raise", text |-> <<>>, exc |-> exc, msg |-> msg]

RECURSIVE InjectEach(_, _, _)
\* helpers.py 1031-1096: the loop over the variables.  str.replace with a
\* value that is no string is a TypeError.
InjectEach(variables, text, hs) ==
    IF variables = <<>> THEN Ok(text)
    ELSE IF Excluded(Head(variables)) THEN InjectEach(Tail(variables), text, hs)
    ELSE LET r == Evaluate(Head(variables), hs)
         IN  IF r.k = "raise" THEN Raised(r.exc, r.msg)
             ELSE IF r.value.t # "str" THEN Raised("TypeError", "")
             ELSE InjectEach(Tail(variables),
                             Replace(text, <<"{", " ">> \o Head(variables) \o <<" ", "}">>,
                                     r.value.v),
                             hs)

\* Mutant: the early return of line 1029 hands back the stripped command.
inject_EarlyReturnStripped(text, hs) ==
    LET found == FindAll(text)
        variables == [i \in 1..Len(found) |-> Strip(found[i])]
    IN  IF Len(variables) = 0 THEN Ok(Strip(text))
        ELSE InjectEach(variables, text, hs)

\* helpers.py 1015-1096: DataInjector(hs).inject(text).
inject(text, hs) ==
    LET found == FindAll(text)
        variables == [i \in 1..Len(found) |-> Strip(found[i])]
    IN  IF Len(variables) = 0 THEN Ok(text)
        ELSE InjectEach(variables, text, hs)

----------------------------------------------------------------------------
(* The injector as a state machine *)

\* A command is assembled from pieces: literal text without braces, and
\* brace expressions  {<pad_l><node>.<segment>...<pad_r>}  (the regular
\* expression of line 995 does not support nested braces).
Lit(text) ==
    [kind |-> "lit", text |-> text, pad_l |-> <<>>, pad_r |-> <<>>,
     node |-> <<>>, segs |-> <<>>]
Expr(l, node, segs, r) ==
    [kind |-> "expr", text |-> <<>>, pad_l |-> l, pad_r |-> r,
     node |-> node, segs |-> segs]

\* A path segment: a key, and the text between its brackets (<<>>: none).
Seg(key, sub) == [key |-> key, sub |-> sub]

RenderSeg(seg) ==
    <<".">> \o seg.key \o (IF seg.sub = <<>> THEN <<>> ELSE <<"[">> \o seg.sub \o <<"]">>)

Body(part) ==
    part.node \o Flatten([i \in 1..Len(part.segs) |-> RenderSeg(part.segs[i])])

Render(part) ==
    IF part.kind = "lit" THEN part.text
    ELSE <<"{">> \o part.pad_l \o Body(part) \o part.pad_r \o <<"}">>

RenderAll(ps) == Flatten([i \in 1..Len(ps) |-> Render(ps[i])])

SP == <<" ">>

Pieces ==
    { Lit(<<"p", " ">>),
      Expr(SP, <<"w">>, << Seg(S_ip, <<"0">>) >>, SP),
      Expr(SP, <<"w">>, << Seg(S_ip, <<"1">>) >>, SP),
      Expr(SP, <<"w", "1">>, << Seg(S_ip, <<"0">>) >>, SP),
      Expr(SP, <<"w">>, << Seg(S_os, <<>>) >>, SP),
      Expr(<<>>, <<"w">>, << Seg(S_ip, <<"0">>) >>, <<>>),
      Expr(SP, <<"w">>, <<>>, SP),
      Expr(SP, <<"w">>, << Seg(<<"q">>, <<>>) >>, SP),
      Expr(SP, <<"z">>, << Seg(S_ip, <<"0">>) >>, SP),
      Expr(SP, <<"z">>, <<>>, SP),
      Expr(<<>>, <<>>, <<>>, <<>>),
      Expr(SP, <<"$">>, << Seg(S_ip, <<"0">>) >>, SP),
      Expr(<<>>, <<"@">>, <<>>, SP),
      Expr(SP, <<>>, << Seg(<<"w">>, <<>>) >>, SP),
      Expr(<<" ", " ">>, <<"|", "w">>, <<>>, <<>>),
      Expr(SP, S_range, << Seg(S_ip, <<"0">>) >>, SP),
      Expr(SP, <<"k", ":", "v">>, <<>>, SP),
      Expr(SP, <<"w">>, << Seg(<<"o", "s", ":", "x">>, <<>>) >>, SP) }

\* The host lists handed to DataInjector.
InjectHostLists == { <<>>, <<H_w>>, <<H_d, H_w>>, <<H_w1, H_d, H_w>> }

InitInject ==
    /\ hosts \in InjectHostLists
    /\ parts \in SeqsUpTo(Pieces, MaxPieces)
    /\ command = RenderAll(parts)
    /\ result = NoResult
    /\ op = "init"
    /\ executes = <<>>
    /\ task = Task(<<>>, <<>>)
    /\ prev = [task |-> task, executes |-> executes]
    /\ calls = 0
    /\ StructIdle
    /\ FilterIdle

\* DataInjector(hosts).inject(command)
Inject ==
    /\ op = "init"
    /\ result' = inject(command, hosts)
    /\ op' = "inject"
    /\ UNCHANGED <<hosts, executes, task, prev, calls, command, parts, structVars, filterVars>>

\* A second pass over the text the first pass returned.
InjectAgain ==
    /\ op = "inject"
    /\ result.st = "ok"
    /\ command' = result.text
    /\ result' = inject(result.text, hosts)
    /\ op' = "inject again"
    /\ UNCHANGED <<hosts, executes, task, prev, calls, parts, structVars, filterVars>>

NextInject == Inject \/ InjectAgain

SpecInject == InitInject /\ [][NextInject]_vars

\* Expressions that walk a host's data: attributes, keys of nested
\* mappings, positions of lists, paths that miss, paths that end on a value
\* that is no string, and paths that go on after a string.
S_q == <<"q">>
S_x == <<"x">>
S_l == <<"l">>
S_e == <<"e">>

PathPieces ==
    { Lit(<<"p", " ">>),
      Expr(SP, <<"w">>, << Seg(S_ip, <<"0">>) >>, SP),
      Expr(SP, <<"w">>, << Seg(S_os, <<>>) >>, SP),
      Expr(SP, <<"w">>, << Seg(S_q, <<>>) >>, SP),
      Expr(SP, <<"w">>, << Seg(S_q, <<"0">>) >>, SP),
      Expr(SP, <<"w">>, << Seg(S_q, <<"0">>), Seg(S_os, <<>>) >>, SP),
      Expr(SP, <<"w">>, << Seg(S_md, <<>>), Seg(S_k, <<>>) >>, SP),
      Expr(SP, <<"w">>, << Seg(S_md, <<>>), Seg(S_q, <<>>) >>, SP),
      Expr(SP, <<"w">>, << Seg(S_md, <<>>), Seg(S_q, <<"0">>) >>, SP),
      Expr(SP, <<"w">>, << Seg(S_md, <<>>), Seg(S_e, <<>>), Seg(S_k, <<"0">>) >>, SP),
      Expr(SP, <<"w">>, <<>>, SP),
      Expr(SP, <<"w">>, << Seg(S_n, <<>>) >>, SP),
      Expr(SP, <<"w">>, << Seg(S_md, <<>>) >>, SP),
      Expr(SP, <<"w">>, << Seg(S_md, <<>>), Seg(S_n, <<>>), Seg(S_k, <<>>) >>, SP),
      Expr(SP, <<"w">>, << Seg(S_md, <<>>), Seg(S_l, <<"0">>), Seg(S_k, <<>>) >>, SP),
      Expr(SP, <<"w">>, << Seg(S_md, <<>>), Seg(S_k, <<>>), Seg(S_x, <<>>) >>, SP),
      Expr(SP, <<"w">>, << Seg(S_md, <<>>), Seg(S_l, <<"1">>), Seg(S_x, <<>>) >>, SP),
      Expr(SP, <<"w">>, << Seg(S_os, <<>>), Seg(S_x, <<>>) >>, SP),
      Expr(SP, <<"w">>, << Seg(S_ip, <<"0">>), Seg(S_x, <<>>) >>, SP),
      Expr(SP, <<"w">>, << Seg(S_ip, <<"5">>) >>, SP),
      Expr(SP, <<"w">>, << Seg(S_ip, S_x) >>, SP),
      Expr(SP, <<"z">>, << Seg(S_q, <<>>) >>, SP) }

InitPath ==
    /\ hosts \in InjectHostLists
    /\ parts \in SeqsUpTo(PathPieces, MaxPieces)
    /\ command = RenderAll(parts)
    /\ result = NoResult
    /\ op = "init"
    /\ ResolveIdle
    /\ StructIdle
    /\ FilterIdle

SpecPath == InitPath /\ [][NextInject]_vars

----------------------------------------------------------------------------
(* DataInjector.inject_dictionary and inject_list (helpers.py 1098-1143) *)

\* What inject_dictionary / inject_list hand back: a value, or an exception.
Returned(v) == [st |-> "ok", value |-> v, exc |-> "", msg |-> ""]
Thrown(exc, msg) == [st |-> "raise", value |-> VNone, exc |-> exc, msg |-> msg]

\* Mutant: every entry goes to the end.
DictUpdate_Append(d, key, val) == Append(d, KV(key, val))

\* injected_dict.update({inj_key: inj_val}): a key the dict holds keeps its
\* place and takes the new value, a new key goes to the end.
DictUpdate(d, key, val) ==
    IF \E i \in 1..Len(d) : d[i].key = key
    THEN [i \in 1..Len(d) |-> IF d[i].key = key THEN KV(key, val) ELSE d[i]]
    ELSE Append(d, KV(key, val))

\* What inject handed back, as a string value or as the exception.
AsValue(r) == IF r.st = "ok" THEN Returned(VStr(r.text)) ELSE Thrown(r.exc, r.msg)

\* self.inject on a key, a value or an item.
InjectString(text, hs) == AsValue(inject(text, hs))

RECURSIVE InjectLoop(_, _, _, _, _)

\* helpers.py 1105-1118: one entry of the dictionary, with its key and its
\* value injected (the key first).
DictStep(x, i, acc, hs, inj_key, inj_val) ==
    IF inj_key.st # "ok" THEN inj_key
    ELSE IF inj_val.st # "ok" THEN inj_val
    ELSE InjectLoop("dict", x, i + 1, DictUpdate(acc, inj_key.value.v, inj_val.value), hs)

\* helpers.py 1130-1141: one item of the list, injected.
ListStep(x, i, acc, hs, inj_item) ==
    IF inj_item.st # "ok" THEN inj_item
    ELSE InjectLoop("list", x, i + 1, Append(acc, inj_item.value), hs)

\* The two methods call each other; they are one recursion here, by mode:
\*   "dict"   helpers.py 1104-1118, for key, value in dictionary.items(),
\*            at entry i of x with the entries injected so far in acc;
\*   "list"   helpers.py 1129-1141, for item in item_list, likewise;
\*   "value"  helpers.py 1106-1113 and 1131-1138, the isinstance dispatch
\*            on the value x.
InjectLoop(mode, x, i, acc, hs) ==
    CASE mode = "dict" ->
            IF i > Len(x) THEN Returned(VDict(acc))
            ELSE DictStep(x, i, acc, hs, InjectString(x[i].key, hs),
                          InjectLoop("value", x[i].val, 1, <<>>, hs))
      [] mode = "list" ->
            IF i > Len(x) THEN Returned(VList(acc))
            ELSE ListStep(x, i, acc, hs, InjectLoop("value", x[i], 1, <<>>, hs))
      [] OTHER ->
            CASE x.t = "list" -> InjectLoop("list", x.v, 1, <<>>, hs)
              [] x.t = "dict" -> InjectLoop("dict", x.v, 1, <<>>, hs)
              [] x.t = "str" -> InjectString(x.v, hs)
              [] OTHER -> Returned(x)

\* helpers.py 1098-1120: DataInjector(hs).inject_dictionary(dictionary).
inject_dictionary(dictionary, hs) == InjectLoop("dict", dictionary, 1, <<>>, hs)

\* helpers.py 1122-1143: DataInjector(hs).inject_list(item_list).
inject_list(item_list, hs) == InjectLoop("list", item_list, 1, <<>>, hs)

\* The data handed over: strings with and without expressions, scalars
\* that are no strings, lists and mappings of them, nested.
MaxEntries == 2

T_p == <<"p">>
T_f == <<"f">>
T_os == Render(Expr(SP, <<"w">>, << Seg(S_os, <<>>) >>, SP))
T_zq == Render(Expr(SP, <<"z">>, << Seg(S_q, <<>>) >>, SP))

\* (kept in lists: values of different Python types are never put into
\* one set)
Leaves == << VStr(T_p), VStr(T_os), VStr(T_zq), VInt(7) >>

Nests ==
    << VList(<<>>), VDict(<<>>),
       VList(<< VStr(T_os), VNone >>),
       VDict(<< KV(T_os, VStr(T_p)), KV(T_f, VInt(7)) >>),
       VList(<< VDict(<< KV(T_os, VList(<< VStr(T_os) >>)) >>) >>) >>

Items == Leaves \o Nests

\* T_os injects to T_f on host w: two keys of one mapping can come to the
\* same string.
Keys == { T_p, T_f, T_os }

InitStruct ==
    /\ hosts \in InjectHostLists
    /\ \E ix \in SeqsUpTo(1..Len(Items), MaxEntries) :
           \/ data = VList([i \in 1..Len(ix) |-> Items[ix[i]]])
           \/ \E ks \in DistinctSeqsUpTo(Keys, MaxEntries) :
                  /\ Len(ks) = Len(ix)
                  /\ data = VDict([i \in 1..Len(ix) |-> KV(ks[i], Items[ix[i]])])
    /\ injected = NoResult
    /\ op = "init"
    /\ ResolveIdle
    /\ InjectIdle
    /\ FilterIdle

\* DataInjector(hosts).inject_dictionary(data)
InjectDictionary ==
    /\ op = "init"
    /\ data.t = "dict"
    /\ injected' = inject_dictionary(data.v, hosts)
    /\ op' = "inject_dictionary"
    /\ UNCHANGED <<hosts, executes, task, prev, calls, command, parts, result,
                   data, filterVars>>

\* DataInjector(hosts).inject_list(data)
InjectList ==
    /\ op = "init"
    /\ data.t = "list"
    /\ injected' = inject_list(data.v, hosts)
    /\ op' = "inject_list"
    /\ UNCHANGED <<hosts, executes, task, prev, calls, command, parts, result,
                   data, filterVars>>

NextStruct == InjectDictionary \/ InjectList

SpecStruct == InitStruct /\ [][NextStruct]_vars

----------------------------------------------------------------------------
(* The filters (helpers.py 596-683) *)

RECURSIVE FailedLoop(_, _)
\* helpers.py 602-605: for index, action_item in enumerate(action_list).
FailedLoop(list, index) ==
    IF index > Len(list) THEN list
    ELSE IF list[index].status = 1 THEN SubSeq(list, index, Len(list))
    ELSE FailedLoop(list, index + 1)

\* Mutant: only the failed actions are handed back.
filter_actions_on_failed_status_OnlyFailed(list) ==
    IF \E i \in 1..Len(list) : list[i].status = 1
    THEN SelectSeq(list, LAMBDA a : a.status = 1)
    ELSE list

\* helpers.py 596-606: filter_actions_on_failed_status(action_list).
filter_actions_on_failed_status(list) == FailedLoop(list, 1)

\* The options of a run: None, or a dict.
NoOptions == [is_none |-> TRUE, items |-> <<>>]
Options(items) == [is_none |-> FALSE, items |-> items]

\* `teflo_options and teflo_options.get(key, ())`, as a truth value.
OptionGiven(options, key) ==
    /\ ~options.is_none
    /\ options.items # <<>>
    /\ Lookup(options.items, key) # <<>>
    /\ Lookup(options.items, key)[1] # <<>>

\* teflo_options.get(key), for a key that is given.
OptionOf(options, key) == Lookup(options.items, key)[1]

\* set(getattr(res, 'labels')).intersection(set(labels)), as a truth value.
LabelsMeet(res, labels) == Range(res.labels) \cap Range(labels) # {}

S_labels == <<"l", "a", "b", "e", "l", "s">>
S_skip_labels == <<"s", "k", "i", "p", "_">> \o S_labels

\* Mutant: skip_labels is looked at first.
filter_resources_labels_SkipFirst(list, options) ==
    IF OptionGiven(options, S_skip_labels)
    THEN SelectSeq(list, LAMBDA res : ~LabelsMeet(res, OptionOf(options, S_skip_labels)))
    ELSE IF OptionGiven(options, S_labels)
    THEN SelectSeq(list, LAMBDA res : LabelsMeet(res, OptionOf(options, S_labels)))
    ELSE list

\* helpers.py 666-683: filter_resources_labels(res_list, teflo_options).
filter_resources_labels(list, options) ==
    IF OptionGiven(options, S_labels)
    THEN SelectSeq(list, LAMBDA res : LabelsMeet(res, OptionOf(options, S_labels)))
    ELSE IF OptionGiven(options, S_skip_labels)
    THEN SelectSeq(list, LAMBDA res : ~LabelsMeet(res, OptionOf(options, S_skip_labels)))
    ELSE list

\* A notification: its name, its trigger flags, and on_tasks, an attribute
\* it may be without.
Notification(name, demand, start, success, failure, has, tasks) ==
    [name |-> name, on_demand |-> demand, on_start |-> start,
     on_success |-> success, on_failure |-> failure,
     has_on_tasks |-> has, on_tasks |-> tasks]

\* len(set(getattr(nt, 'on_tasks')).intersection(tasks)) != 0, for a
\* notification that has the attribute.
TasksMeet(nt, tasks) == Range(nt.on_tasks) \cap Range(tasks) # {}

\* getattr(res, 'on_tasks', []).
OnTasksOrNone(res) == IF res.has_on_tasks THEN res.on_tasks ELSE <<>>

\* Mutant: the notifications that are not on demand.
OnDemand_Negated(list) == SelectSeq(list, LAMBDA res : ~res.on_demand)

\* helpers.py 629-630.
OnDemand(list) == SelectSeq(list, LAMBDA res : res.on_demand)

\* Mutant: the failed tasks count as well.
OnStart_AnyTask(list, passed, failed) ==
    SelectSeq(list, LAMBDA res : res.on_start
                                    /\ Range(OnTasksOrNone(res))
                                           \cap Range(passed \o failed) # {})

\* helpers.py 635-637.
OnStart(list, passed, failed) ==
    SelectSeq(list, LAMBDA res : res.on_start
                                    /\ Range(OnTasksOrNone(res)) \cap Range(passed) # {})

\* helpers.py 645.
SuccessCandidates(nl) == SelectSeq(nl, LAMBDA nt : nt.on_success /\ ~nt.on_failure)

\* Mutant: the failed tasks are not looked at.
SuccessOnly_IgnoreFailed(nl, passed, failed) ==
    SelectSeq(SuccessCandidates(nl), LAMBDA nt : TasksMeet(nt, passed))

\* helpers.py 646-647.
SuccessOnly(nl, passed, failed) ==
    SelectSeq(SuccessCandidates(nl), LAMBDA nt : failed = <<>> /\ TasksMeet(nt, passed))

\* helpers.py 646: getattr(nt, 'on_tasks') has no default and is reached
\* when no task failed; AttributeError for a notification without on_tasks.
SuccessRaises(nl, passed, failed) ==
    failed = <<>> /\ \E i \in 1..Len(SuccessCandidates(nl)) :
                        ~SuccessCandidates(nl)[i].has_on_tasks

\* helpers.py 651.
FailureCandidates(nl) == SelectSeq(nl, LAMBDA nt : nt.on_failure /\ ~nt.on_success)

\* Mutant: the passed tasks are not looked at.
FailureOnly_IgnorePassed(nl, passed, failed) ==
    SelectSeq(FailureCandidates(nl), LAMBDA nt : TasksMeet(nt, failed))

\* helpers.py 652-653.
FailureOnly(nl, passed, failed) ==
    SelectSeq(FailureCandidates(nl), LAMBDA nt : passed = <<>> /\ TasksMeet(nt, failed))

\* helpers.py 652: as line 646, reached when no task passed.
FailureRaises(nl, passed, failed) ==
    passed = <<>> /\ \E i \in 1..Len(FailureCandidates(nl)) :
                        ~FailureCandidates(nl)[i].has_on_tasks

\* helpers.py 657.
MixedCandidates(nl) == SelectSeq(nl, LAMBDA nt : nt.on_success /\ nt.on_failure)

\* Mutant: only the passed tasks are looked at.
Mixed_PassedOnly(nl, passed, failed) ==
    SelectSeq(MixedCandidates(nl), LAMBDA nt : TasksMeet(nt, passed))

\* helpers.py 658-660.
Mixed(nl, passed, failed) ==
    SelectSeq(MixedCandidates(nl),
              LAMBDA nt : TasksMeet(nt, failed) \/ TasksMeet(nt, passed))

\* helpers.py 658: as line 646, always reached.
MixedRaises(nl) ==
    \E i \in 1..Len(MixedCandidates(nl)) : ~MixedCandidates(nl)[i].has_on_tasks

\* helpers.py 638-663: the state on_complete, over the notifications that
\* are not on demand.
OnComplete(list, passed, failed) ==
    LET nl == SelectSeq(list, LAMBDA res : ~res.on_start)
    IN  IF SuccessRaises(nl, passed, failed) \/ FailureRaises(nl, passed, failed)
           \/ MixedRaises(nl)
        THEN Thrown("AttributeError", "on_tasks")
        ELSE Returned(VList(SuccessOnly(nl, passed, failed)
                                \o FailureOnly(nl, passed, failed)
                                \o Mixed(nl, passed, failed)))

\* Mutant: the on-demand notifications are not taken out (line 633).
filter_notifications_on_trigger_KeepOnDemand(st, list, passed, failed) ==
    IF st = "on_demand" THEN Returned(VList(OnDemand(list)))
    ELSE IF st = "on_start" THEN Returned(VList(OnStart(list, passed, failed)))
    ELSE IF st = "on_complete" THEN OnComplete(list, passed, failed)
    ELSE Returned(VNone)

\* helpers.py 623-663: filter_notifications_on_trigger(state, notify_list,
\* passed_tasks, failed_tasks).  With any other state the function falls
\* off its end and returns None.
filter_notifications_on_trigger(st, list, passed, failed) ==
    IF st = "on_demand" THEN Returned(VList(OnDemand(list)))
    ELSE LET rest == SelectSeq(list, LAMBDA res : ~res.on_demand)
         IN  IF st = "on_start" THEN Returned(VList(OnStart(rest, passed, failed)))
             ELSE IF st = "on_complete" THEN OnComplete(rest, passed, failed)
             ELSE Returned(VNone)

(* The filters as state machines *)

MaxActions == 3
MaxResources == 2
MaxNotifications == 2

Action(name, status) == [name |-> name, status |-> status]

\* Action lists: the i-th action is named i; status 0 is a run that
\* passed, 1 one that failed, 2 any other status.
ActionLists ==
    UNION { { [i \in 1..n |-> Action(i, st[i])] : st \in [1..n -> {0, 1, 2}] } :
              n \in 0..MaxActions }

Resource(name, labels) == [name |-> name, labels |-> labels]

L_x == <<"x">>
L_y == <<"y">>

ResourceUniverse ==
    { Resource(<<"r", "1">>, <<L_x>>), Resource(<<"r", "2">>, <<L_y>>),
      Resource(<<"r", "3">>, <<L_x, L_y>>), Resource(<<"r", "4">>, <<>>) }

LabelLists == { <<>>, <<L_x>>, <<L_y>>, <<L_x, L_y>> }

OptionUniverse ==
    { NoOptions, Options(<<>>) }
        \cup { Options(<< KV(S_labels, l) >>) : l \in LabelLists }
        \cup { Options(<< KV(S_skip_labels, l) >>) : l \in LabelLists }
        \cup { Options(<< KV(S_labels, l), KV(S_skip_labels, k) >>) :
                   l \in LabelLists, k \in LabelLists }

InitFilter ==
    /\ \/ /\ action_list \in ActionLists
          /\ res_list = <<>>
          /\ teflo_options = NoOptions
       \/ /\ action_list = <<>>
          /\ res_list \in DistinctSeqsUpTo(ResourceUniverse, MaxResources)
          /\ teflo_options \in OptionUniverse
    /\ notify_list = <<>>
    /\ passed_tasks = <<>>
    /\ failed_tasks = <<>>
    /\ state = ""
    /\ filtered = NoResult
    /\ op = "init"
    /\ hosts = <<>>
    /\ ResolveIdle
    /\ InjectIdle
    /\ StructIdle

\* filter_actions_on_failed_status(action_list)
FilterActions ==
    /\ op = "init"
    /\ filtered' = Returned(filter_actions_on_failed_status(action_list))
    /\ op' = "filter_actions"
    /\ UNCHANGED <<hosts, executes, task, prev, calls, command, parts, result,
                   structVars, action_list, res_list, teflo_options, notify_list,
                   passed_tasks, failed_tasks, state>>

\* The same filter over the list it returned.
FilterActionsAgain ==
    /\ op = "filter_actions"
    /\ action_list' = filtered.value
    /\ filtered' = Returned(filter_actions_on_failed_status(filtered.value))
    /\ op' = "filter_actions again"
    /\ UNCHANGED <<hosts, executes, task, prev, calls, command, parts, result,
                   structVars, res_list, teflo_options, notify_list,
                   passed_tasks, failed_tasks, state>>

\* filter_resources_labels(res_list, teflo_options)
FilterLabels ==
    /\ op = "init"
    /\ filtered' = Returned(filter_resources_labels(res_list, teflo_options))
    /\ op' = "filter_labels"
    /\ UNCHANGED <<hosts, executes, task, prev, calls, command, parts, result,
                   structVars, action_list, res_list, teflo_options, notify_list,
                   passed_tasks, failed_tasks, state>>

NextFilter == FilterActions \/ FilterActionsAgain \/ FilterLabels

SpecFilter == InitFilter /\ [][NextFilter]_vars

T_a == <<"a">>
T_b == <<"b">>

\* Notifications of every kind the filter tells apart; the last four have
\* no on_tasks.
NotificationUniverse ==
    { Notification(<<"n", "1">>, TRUE, FALSE, TRUE, TRUE, TRUE, <<T_a>>),
      Notification(<<"n", "2">>, TRUE, TRUE, FALSE, FALSE, TRUE, <<T_b>>),
      Notification(<<"n", "3">>, FALSE, TRUE, FALSE, FALSE, TRUE, <<T_a>>),
      Notification(<<"n", "4">>, FALSE, TRUE, TRUE, FALSE, TRUE, <<T_a, T_b>>),
      Notification(<<"n", "5">>, FALSE, FALSE, TRUE, FALSE, TRUE, <<T_a>>),
      Notification(<<"n", "6">>, FALSE, FALSE, TRUE, FALSE, TRUE, <<>>),
      Notification(<<"n", "7">>, FALSE, FALSE, FALSE, TRUE, TRUE, <<T_b>>),
      Notification(<<"n", "8">>, FALSE, FALSE, TRUE, TRUE, TRUE, <<T_a>>),
      Notification(<<"n", "9">>, FALSE, FALSE, FALSE, FALSE, TRUE, <<T_a, T_b>>),
      Notification(<<"n", "1", "0">>, FALSE, TRUE, FALSE, FALSE, FALSE, <<>>),
      Notification(<<"n", "1", "1">>, FALSE, FALSE, TRUE, TRUE, FALSE, <<>>),
      Notification(<<"n", "1", "2">>, FALSE, FALSE, TRUE, FALSE, FALSE, <<>>),
      Notification(<<"n", "1", "3">>, FALSE, FALSE, FALSE, TRUE, FALSE, <<>>) }

TaskLists == { <<>>, <<T_a>>, <<T_b>>, <<T_a, T_b>> }

TriggerStates == {"on_demand", "on_start", "on_complete", "on_other"}

InitTrigger ==
    /\ notify_list \in DistinctSeqsUpTo(NotificationUniverse, MaxNotifications)
    /\ passed_tasks \in TaskLists
    /\ failed_tasks \in TaskLists
    /\ state = ""
    /\ filtered = NoResult
    /\ action_list = <<>>
    /\ res_list = <<>>
    /\ teflo_options = NoOptions
    /\ op = "init"
    /\ hosts = <<>>
    /\ ResolveIdle
    /\ InjectIdle
    /\ StructIdle

\* filter_notifications_on_trigger(st, notify_list, passed_tasks,
\* failed_tasks), for any state and any number of times.
Trigger ==
    \E st \in TriggerStates :
        /\ state' = st
        /\ filtered' = filter_notifications_on_trigger(st, notify_list,
                                                       passed_tasks, failed_tasks)
        /\ op' = "trigger"
        /\ UNCHANGED <<hosts, executes, task, prev, calls, command, parts, result,
                       structVars, action_list, res_list, teflo_options, notify_list,
                       passed_tasks, failed_tasks>>

NextTrigger == Trigger

SpecTrigger == InitTrigger /\ [][NextTrigger]_vars

----------------------------------------------------------------------------
(* The filter under a driver that records task outcomes *)

MaxTasks == 2

\* The notifications the state on_complete can return: neither on demand
\* nor on start, and asking for an outcome.
CompletionNotifications ==
    { n \in NotificationUniverse :
        ~n.on_demand /\ ~n.on_start /\ (n.on_success \/ n.on_failure) }

InitDriver ==
    /\ notify_list \in DistinctSeqsUpTo(CompletionNotifications, MaxNotifications)
    /\ passed_tasks = <<>>
    /\ failed_tasks = <<>>
    /\ state = ""
    /\ filtered = NoResult
    /\ action_list = <<>>
    /\ res_list = <<>>
    /\ teflo_options = NoOptions
    /\ op = "init"
    /\ hosts = <<>>
    /\ ResolveIdle
    /\ InjectIdle
    /\ StructIdle

\* The driver records a task that passed: its name goes to the end of
\* passed_tasks.
TaskPassed ==
    \E t \in {T_a, T_b} :
        /\ Len(passed_tasks) + Len(failed_tasks) < MaxTasks
        /\ passed_tasks' = Append(passed_tasks, t)
        /\ op' = "task_passed"
        /\ UNCHANGED <<hosts, executes, task, prev, calls, command, parts, result,
                       structVars, action_list, res_list, teflo_options, notify_list,
                       failed_tasks, state, filtered>>

\* The driver records a task that failed: its name goes to the end of
\* failed_tasks.
TaskFailed ==
    \E t \in {T_a, T_b} :
        /\ Len(passed_tasks) + Len(failed_tasks) < MaxTasks
        /\ failed_tasks' = Append(failed_tasks, t)
        /\ op' = "task_failed"
        /\ UNCHANGED <<hosts, executes, task, prev, calls, command, parts, result,
                       structVars, action_list, res_list, teflo_options, notify_list,
                       passed_tasks, state, filtered>>

NextDriver == TaskPassed \/ TaskFailed \/ Trigger

SpecDriver == InitDriver /\ [][NextDriver]_vars

----------------------------------------------------------------------------
(* Properties of the reference resolver *)

\* The host objects of a list, as references.
Objs(hs) == [i \in 1..Len(hs) |-> Obj(hs[i])]

\* The matching conditions of helpers.py 723-732 (plain strings) and 740
\* (objects), for one reference and one host.
MatchesHost(ref, host) ==
    IF IsStr(ref)
    THEN \/ ref.v = S_all
         \/ ref.v = host.name
         \/ \E i \in 1..Len(host.groups) : host.groups[i] = ref.v
    ELSE \/ ref.v.name = host.name
         \/ IsSubstring(ref.v.name, host.name)

NoHostMatches(hs, refs) ==
    \A i \in 1..Len(hs), j \in 1..Len(refs) : ~MatchesHost(refs[j], hs[i])

\* Position of a host in the graph's host list.
Pos(host) == CHOOSE i \in 1..Len(hosts) : hosts[i] = host

AfterFetchAssets == op = "fetch_assets"
AfterFetchExecutes == op = "fetch_executes"

\* The references the last call was given.
R == prev.task.hosts

\* C1 as stated: for every host list H and every reference list containing
\* "all", fetch_assets leaves the task with hosts = H and all_hosts = H.
C1_WildcardSelectsAll_AnyH ==
    (AfterFetchAssets /\ InRefs(S_all, R))
        => (task.hosts = Objs(hosts) /\ task.all_hosts = hosts)

\* C1 amended: for every NON-EMPTY host list H and every reference list of
\* plain strings containing "all", fetch_assets leaves the task with
\* hosts = H and all_hosts = H, in the order of H; with an empty H the
\* reference list stays as it was and all_hosts is empty.
C1_WildcardSelectsAll ==
    (AfterFetchAssets /\ InRefs(S_all, R))
        => /\ task.all_hosts = hosts
           /\ hosts # <<>> => task.hosts = Objs(hosts)
           /\ hosts = <<>> => task.hosts = R

C1_Witness ==
    /\ AfterFetchAssets
    /\ InRefs(S_all, R)
    /\ Len(R) = 2
    /\ Len(hosts) = 3
    /\ task.hosts = Objs(hosts)
    /\ task.all_hosts = hosts

\* C2 as stated: every reference other than "all" resolves to at least one
\* host or resolution fails; a reference matching no host is never silently
\* dropped while other references are bound.  fetch_assets has no failing
\* exit, so whenever it has bound hosts every reference must have matched.
C2_NoReferenceSilentlyDropped ==
    (AfterFetchAssets /\ task.hosts # R)
        => \A j \in 1..Len(R) :
               (R[j] # Str(S_all)) => \E i \in 1..Len(hosts) : MatchesHost(R[j], hosts[i])

\* C3: when no host matches any reference, fetch_assets returns the task
\* with its reference list unchanged and all_hosts set to the full host list.
C3_NoMatchKeepsReferences ==
    (AfterFetchAssets /\ NoHostMatches(hosts, R))
        => (task.hosts = R /\ task.all_hosts = hosts)

C3_Witness ==
    /\ AfterFetchAssets
    /\ hosts # <<>>
    /\ R # <<>>
    /\ NoHostMatches(hosts, R)
    /\ task.hosts = R
    /\ task.all_hosts = hosts

\* C4: after resolution the selected hosts follow the order of the graph's
\* host list, whatever the order of the references: a host never precedes
\* one that comes earlier in the graph.
C4_SelectedInGraphOrder ==
    (AfterFetchAssets /\ ~NoHostMatches(hosts, R))
        => \A i, j \in 1..Len(task.hosts) :
               i < j => Pos(task.hosts[i].v) <= Pos(task.hosts[j].v)

C4_Witness ==
    /\ AfterFetchAssets
    /\ R = << Str(<<"d">>), Str(<<"g">>) >>
    /\ hosts = << H_w1, H_d >>
    /\ task.hosts = << Obj(H_w1), Obj(H_d) >>

\* C5 as stated: resolving a task's hosts or executes leaves every execute
\* resource of the graph unchanged, its own host references included.
C5_GraphReadOnly ==
    (AfterFetchAssets \/ AfterFetchExecutes) => executes = prev.executes

\* Is the execute named by the list the task came with.
Referenced(e, refs) == \E j \in 1..Len(refs) : refs[j].v = e.name

\* C5 amended: fetch_assets changes only the task.  fetch_executes changes
\* the task and, of the graph, only the hosts and all_hosts of the executes
\* the task references; every other execute, and every execute's name and
\* position, is unchanged.
C5_OnlyReferencedExecutesChange ==
    /\ AfterFetchAssets => executes = prev.executes
    /\ AfterFetchExecutes =>
          /\ Len(executes) = Len(prev.executes)
          /\ \A i \in 1..Len(executes) :
                /\ executes[i].name = prev.executes[i].name
                /\ ~Referenced(prev.executes[i], prev.task.executes)
                       => executes[i] = prev.executes[i]

C5_Witness ==
    /\ AfterFetchExecutes
    /\ Len(executes) = 2
    /\ executes[1] # prev.executes[1]
    /\ executes[2] = prev.executes[2]

RECURSIVE ReferencedExecutes(_, _)
\* The executes a list references, in the order of the executes list.
ReferencedExecutes(es, refs) ==
    IF es = <<>> THEN <<>>
    ELSE (IF Referenced(Head(es), refs) THEN <<Obj(Head(es).name)>> ELSE <<>>)
         \o ReferencedExecutes(Tail(es), refs)

\* Each referenced execute has been resolved as a task of its own.
ReferencedExecutesBound ==
    \A i \in 1..Len(executes) :
        Referenced(prev.executes[i], prev.task.executes)
            => executes[i] = fetch_assets(hosts, prev.executes[i], TRUE)

\* C6 as stated: fetch_executes replaces the task's execute references by
\* exactly the referenced executes, in the order of the executes list, each
\* with its own host references bound.
C6_ExecutesReplaced_Always ==
    AfterFetchExecutes
        => /\ task.executes = ReferencedExecutes(prev.executes, prev.task.executes)
           /\ ReferencedExecutesBound

\* C6 amended: when at least one execute is referenced, fetch_executes
\* replaces the task's execute references by exactly the referenced
\* executes, in the order of the executes list, each with its own host
\* references bound by fetch_assets; when none is referenced the task's
\* execute references stay as they were.
C6_ExecutesReplaced ==
    AfterFetchExecutes
        => LET found == ReferencedExecutes(prev.executes, prev.task.executes)
           IN  /\ found # <<>> => task.executes = found
               /\ found = <<>> => task.executes = prev.task.executes
               /\ ReferencedExecutesBound

C6_Witness ==
    /\ AfterFetchExecutes
    /\ prev.task.executes = << Str(<<"f">>), Str(<<"e">>) >>
    /\ prev.executes = << E_e, E_f >>
    /\ hosts = << H_d, H_w >>
    /\ task.executes = << Obj(<<"e">>), Obj(<<"f">>) >>
    /\ executes[1].hosts = << Obj(H_w) >>
    /\ executes[2].hosts = << Obj(H_w), Obj(H_w) >>

----------------------------------------------------------------------------
(* Properties of the injector *)

AfterInject == op = "inject"
AfterInjectAgain == op = "inject again"

IsExpr(part) == part.kind = "expr"

\* What stands between the braces of an expression, as written and trimmed.
Content(part) == part.pad_l \o Body(part) \o part.pad_r
Trimmed(part) == Strip(Content(part))

\* The trimmed content begins with `$`, `@`, `.`, `|` or `range`.
ExcludedPrefix(part) ==
    /\ IsExpr(part)
    /\ \/ StartsWith(Trimmed(part), <<"$">>)
       \/ StartsWith(Trimmed(part), <<"@">>)
       \/ StartsWith(Trimmed(part), <<".">>)
       \/ StartsWith(Trimmed(part), <<"|">>)
       \/ StartsWith(Trimmed(part), S_range)

HostNamed(n, hs) == CHOOSE i \in 1..Len(hs) : hs[i].name = n

\* The expression is "{ h.a[i] }" for a host h of hs whose attribute a is a
\* sequence of strings with an element at index i.
IsListElement(part, hs) ==
    /\ IsExpr(part)
    /\ part.pad_l = SP /\ part.pad_r = SP
    /\ Len(part.segs) = 1
    /\ Len(part.segs[1].sub) = 1 /\ IsDigit(part.segs[1].sub[1])
    /\ \E i \in 1..Len(hs) : hs[i].name = part.node
    /\ LET a == Lookup(hs[HostNamed(part.node, hs)].attrs, part.segs[1].key)
       IN  /\ a # <<>>
           /\ a[1].t = "list"
           /\ \A j \in 1..Len(a[1].v) : a[1].v[j].t = "str"
           /\ DigitValue(part.segs[1].sub[1]) < Len(a[1].v)

\* The element the expression designates (elements are counted from 0).
ListElement(part, hs) ==
    Lookup(hs[HostNamed(part.node, hs)].attrs, part.segs[1].key)[1]
        .v[DigitValue(part.segs[1].sub[1]) + 1].v

\* C7: for a host h whose attribute a is a sequence of strings and a valid
\* index i, inject replaces "{ h.a[i] }" by the i-th element of h.a and
\* leaves the rest of the text (literal text, excluded expressions)
\* unchanged.
C7_ListElementInjected ==
    (/\ AfterInject
     /\ \E k \in 1..Len(parts) : IsListElement(parts[k], hosts)
     /\ \A k \in 1..Len(parts) :
           \/ parts[k].kind = "lit"
           \/ ExcludedPrefix(parts[k])
           \/ IsListElement(parts[k], hosts))
        => result = Ok(Flatten([k \in 1..Len(parts) |->
                           IF IsListElement(parts[k], hosts)
                           THEN ListElement(parts[k], hosts)
                           ELSE Render(parts[k])]))

C7_Witness ==
    /\ AfterInject
    /\ hosts = <<H_d, H_w>>
    /\ parts = << Lit(<<"p", " ">>), Expr(SP, <<"w">>, << Seg(S_ip, <<"1">>) >>, SP) >>
    /\ command = <<"p", " ", "{", " ", "w", ".", "i", "p", "[", "1", "]", " ", "}">>
    /\ result = Ok(<<"p", " ", "1", ".", "6">>)

\* The outcome of injecting a text made of an excluded expression between
\* two texts: the excluded expression stays in place and adds nothing.
AroundExcluded(before, excluded, after) ==
    IF before.st = "raise" THEN before
    ELSE IF after.st = "raise" THEN after
    ELSE Ok(before.text \o excluded \o after.text)

\* C8: a brace expression whose trimmed content begins with `$`, `@`, `.`,
\* `|` or `range` is left unchanged by inject, byte for byte, and causes no
\* host lookup and no error, whatever the host list is: a text whose
\* expressions are all of that kind is returned as it is for every host
\* list, and in any text the expression stays in place between the
\* injected texts before and after it.
C8_ExcludedLeftUnchanged ==
    AfterInject
        => /\ (\A k \in 1..Len(parts) : parts[k].kind = "lit" \/ ExcludedPrefix(parts[k]))
                  => \A hs \in InjectHostLists : inject(command, hs) = Ok(command)
           /\ \A k \in 1..Len(parts) :
                  ExcludedPrefix(parts[k])
                      => result = AroundExcluded(
                                      inject(RenderAll(SubSeq(parts, 1, k - 1)), hosts),
                                      Render(parts[k]),
                                      inject(RenderAll(SubSeq(parts, k + 1, Len(parts))), hosts))

C8_Witness ==
    /\ AfterInject
    /\ hosts = <<H_w>>
    /\ parts = << Expr(SP, <<"w">>, << Seg(S_ip, <<"0">>) >>, SP),
                  Expr(<<" ", " ">>, <<"|", "w">>, <<>>, <<>>) >>
    /\ result = Ok(S_addr \o <<"{", " ", " ", "|", "w", "}">>)

\* The text holds a "{", later a "}", and no line break between them.
HasBraceExpression(s) ==
    \E i, j \in 1..Len(s) :
        /\ i < j
        /\ s[i] = "{" /\ s[j] = "}"
        /\ \A k \in (i + 1)..(j - 1) : s[k] # "\n"

\* C9: when inject succeeded and its result holds no brace expression,
\* inject applied to that result returns it unchanged.
C9_IdempotentOnResolvedText ==
    (AfterInjectAgain /\ ~HasBraceExpression(command)) => result = Ok(command)

C9_Witness ==
    /\ AfterInjectAgain
    /\ parts = << Expr(SP, <<"w">>, << Seg(S_ip, <<"0">>) >>, SP), Lit(<<"p", " ">>) >>
    /\ command = S_addr \o <<"p", " ">>
    /\ result = Ok(command)

\* A non-excluded expression whose first dotted segment names no host.
NodeUnknown(part, hs) ==
    /\ IsExpr(part)
    /\ ~Excluded(Trimmed(part))
    /\ \A i \in 1..Len(hs) : hs[i].name # part.node

\* C10: for a non-excluded brace expression whose first dotted segment is
\* not the name of a host of the list, inject returns no text, and the
\* evaluation of that expression (reached when the expressions before it
\* went through) raises TefloError "node not found"; also when the
\* expression has no further segment or is empty.
C10_UnknownNodeRaises ==
    AfterInject
        => \A k \in 1..Len(parts) :
               NodeUnknown(parts[k], hosts)
                   => /\ result.st = "raise"
                      /\ inject(RenderAll(SubSeq(parts, 1, k - 1)), hosts).st = "ok"
                             => result = Raised("TefloError", "node not found")

C10_Witness ==
    /\ AfterInject
    /\ hosts = <<H_d, H_w>>
    /\ parts = << Expr(SP, <<"w">>, << Seg(S_os, <<>>) >>, SP), Expr(<<>>, <<>>, <<>>, <<>>) >>
    /\ result = Raised("TefloError", "node not found")

\* What an expression's path comes to when every segment is taken at its
\* word: a segment names an attribute of the host while no value is held,
\* a key of the mapping held otherwise, and its bracket a position of what
\* it names.  The number of the first segment that names an attribute the
\* host lacks or a key the mapping held lacks; 0 when there is none, or
\* when the path leaves hosts and mappings before.
RECURSIVE FirstMissing(_, _, _, _)
FirstMissing(segs, i, host, cur) ==
    IF i > Len(segs) \/ cur.t \notin {"none", "dict"} THEN 0
    ELSE LET key == segs[i].key
             has == IF cur.t = "none" THEN HasAttr(host, key)
                    ELSE Lookup(cur.v, key) # <<>>
         IN  IF ~has THEN i
             ELSE LET v == IF cur.t = "none" THEN GetAttr(host, key)
                           ELSE Lookup(cur.v, key)[1]
                      pos == ParseInt(segs[i].sub)
                      w == IF segs[i].sub = <<>> THEN Got(v)
                           ELSE IF pos.ok THEN SubscriptInt(v, pos.val)
                           ELSE Fault("ValueError")
                  IN  IF w.k # "ok" THEN 0
                      ELSE FirstMissing(segs, i + 1, host, w.value)

\* A non-excluded expression on a host of the list.
OnKnownHost(part, hs) ==
    /\ IsExpr(part)
    /\ ~Excluded(Trimmed(part))
    /\ \E i \in 1..Len(hs) : hs[i].name = part.node

\* The errors that report a reference that was not found.
ReferenceErrors == {"TefloError", "AttributeError"}

\* C11: when a segment of an expression's path, with or without a bracket
\* index, names an attribute the host does not have or a key the current
\* mapping does not have, inject fails with a reference error and
\* substitutes nothing (here: the expression is the first of the text).
C11_RaisesAtFirstMissingSegment ==
    AfterInject
        => \A k \in 1..Len(parts) :
               (/\ OnKnownHost(parts[k], hosts)
                /\ \A j \in 1..(k - 1) : parts[j].kind = "lit"
                /\ FirstMissing(parts[k].segs, 1,
                                hosts[HostNamed(parts[k].node, hosts)], VNone) > 0)
                   => /\ result.st = "raise"
                      /\ result.exc \in ReferenceErrors

\* Every bracket of the expression holds a decimal integer.
IndicesWellFormed(part) ==
    \A i \in 1..Len(part.segs) :
        part.segs[i].sub = <<>> \/ ParseInt(part.segs[i].sub).ok

\* C12: when the bracket indices of the expressions are integers, every
\* failure of inject is a reference-not-found error (unknown host, missing
\* attribute, missing key) and never another kind of fault.
C12_FailuresAreReferenceErrors ==
    (/\ AfterInject
     /\ \A k \in 1..Len(parts) : IsExpr(parts[k]) => IndicesWellFormed(parts[k])
     /\ result.st = "raise")
        => result.exc \in ReferenceErrors

AfterInjectStruct == op \in {"inject_dictionary", "inject_list"}

\* What inject makes of a string (for strings it accepts).
Injected(text, hs) == inject(text, hs).text

\* The entries of a mapping whose keys come to the same string as an
\* earlier entry's.
Clashes(d, hs) ==
    { i \in 1..Len(d) : \E j \in 1..(i - 1) : Injected(d[j].key, hs) = Injected(d[i].key, hs) }

\* The entries of a mapping that are the first with their injected key, in
\* order.
RECURSIVE Firsts(_, _, _)
Firsts(d, i, hs) ==
    IF i > Len(d) THEN <<>>
    ELSE (IF i \in Clashes(d, hs) THEN <<>> ELSE <<i>>) \o Firsts(d, i + 1, hs)

\* The last entry of a mapping whose key comes to the same string as
\* entry i's.
LastLike(d, i, hs) ==
    CHOOSE j \in i..Len(d) :
        /\ Injected(d[j].key, hs) = Injected(d[i].key, hs)
        /\ \A k \in (j + 1)..Len(d) : Injected(d[k].key, hs) # Injected(d[i].key, hs)

RECURSIVE Same(_, _)
\* a and b are the same value (compared type first).
Same(a, b) ==
    /\ a.t = b.t
    /\ CASE a.t = "list" ->
               /\ Len(a.v) = Len(b.v)
               /\ \A i \in 1..Len(a.v) : Same(a.v[i], b.v[i])
          [] a.t = "dict" ->
               /\ Len(a.v) = Len(b.v)
               /\ \A i \in 1..Len(a.v) :
                      a.v[i].key = b.v[i].key /\ Same(a.v[i].val, b.v[i].val)
          [] OTHER -> a.v = b.v

RECURSIVE SameShape(_, _, _)
\* b has the shape of a: the same nesting, the same number and order of
\* entries, every string leaf and every key the injected original, every
\* other leaf unchanged.
SameShape(a, b, hs) ==
    CASE a.t = "str" -> b.t = "str" /\ b.v = Injected(a.v, hs)
      [] a.t = "list" ->
            /\ b.t = "list" /\ Len(b.v) = Len(a.v)
            /\ \A i \in 1..Len(a.v) : SameShape(a.v[i], b.v[i], hs)
      [] a.t = "dict" ->
            /\ b.t = "dict" /\ Len(b.v) = Len(a.v)
            /\ \A i \in 1..Len(a.v) :
                   /\ b.v[i].key = Injected(a.v[i].key, hs)
                   /\ SameShape(a.v[i].val, b.v[i].val, hs)
      [] OTHER -> Same(a, b)

RECURSIVE MergedShape(_, _, _)
\* As SameShape, but the entries of a mapping whose keys inject to the
\* same string are one entry, at the place of the first, with the value of
\* the last.
MergedShape(a, b, hs) ==
    CASE a.t = "str" -> b.t = "str" /\ b.v = Injected(a.v, hs)
      [] a.t = "list" ->
            /\ b.t = "list" /\ Len(b.v) = Len(a.v)
            /\ \A i \in 1..Len(a.v) : MergedShape(a.v[i], b.v[i], hs)
      [] a.t = "dict" ->
            LET f == Firsts(a.v, 1, hs)
            IN  /\ b.t = "dict" /\ Len(b.v) = Len(f)
                /\ \A n \in 1..Len(f) :
                       /\ b.v[n].key = Injected(a.v[f[n]].key, hs)
                       /\ MergedShape(a.v[LastLike(a.v, f[n], hs)].val, b.v[n].val, hs)
      [] OTHER -> Same(a, b)

\* C13 as stated: what inject_dictionary / inject_list return has the
\* shape of what they were given, with the same number and order of
\* entries in every mapping and list, every string leaf and key injected,
\* every other leaf unchanged.
C13_SameShape_Always ==
    (AfterInjectStruct /\ injected.st = "ok") => SameShape(data, injected.value, hosts)

RECURSIVE NoClash(_, _)
\* No mapping of the structure has two keys that inject to the same string.
NoClash(a, hs) ==
    CASE a.t = "list" -> \A i \in 1..Len(a.v) : NoClash(a.v[i], hs)
      [] a.t = "dict" ->
            /\ Clashes(a.v, hs) = {}
            /\ \A i \in 1..Len(a.v) : NoClash(a.v[i].val, hs)
      [] OTHER -> TRUE

\* C13: what inject_dictionary / inject_list return has the nesting of
\* what they were given, lists keep the number and order of their items,
\* every string leaf and key is the injected original and every other
\* leaf is unchanged; a mapping keeps the number and order of its entries
\* when its keys inject to pairwise different strings, and entries whose
\* keys inject to the same string become one entry, at the place of the
\* first and with the value of the last.
C13_SameShape ==
    (AfterInjectStruct /\ injected.st = "ok")
        => /\ MergedShape(data, injected.value, hosts)
           /\ NoClash(data, hosts) => SameShape(data, injected.value, hosts)

C13_Witness ==
    /\ op = "inject_dictionary"
    /\ hosts = <<H_w>>
    /\ Same(data, VDict(<< KV(T_os, VList(<< VStr(T_os), VNone >>)), KV(T_p, VInt(7)) >>))
    /\ injected.st = "ok"
    /\ Same(injected.value, VDict(<< KV(T_f, VList(<< VStr(T_f), VNone >>)),
                                     KV(T_p, VInt(7)) >>))

----------------------------------------------------------------------------
(* Properties of the filters *)

\* The position of the first action of a list whose status is failed (1).
HasFailed(list) == \E i \in 1..Len(list) : list[i].status = 1
FirstFailed(list) ==
    CHOOSE i \in 1..Len(list) :
        list[i].status = 1 /\ \A j \in 1..(i - 1) : list[j].status # 1

\* C14: filter_actions_on_failed_status returns the part of the list that
\* starts at the first failed action, the failed action included, and the
\* list as it is when no action failed; filtering what it returned gives
\* the same list again.
C14_SuffixFromFirstFailed ==
    /\ op = "filter_actions"
           => filtered.value = IF HasFailed(action_list)
                               THEN SubSeq(action_list, FirstFailed(action_list),
                                           Len(action_list))
                               ELSE action_list
    /\ op = "filter_actions again" => filtered.value = action_list

C14_Witness ==
    /\ op = "filter_actions again"
    /\ action_list = << Action(2, 1), Action(3, 0) >>
    /\ filtered.value = << Action(2, 1), Action(3, 0) >>

\* The labels (or skip_labels) of the options; none when there are no
\* options or the options do not name them.
Wanted(options, key) ==
    IF options.is_none \/ Lookup(options.items, key) = <<>> THEN <<>>
    ELSE Lookup(options.items, key)[1]

\* The resources of a list that have one of the labels / none of them.
WithLabel(list, labels) ==
    SelectSeq(list, LAMBDA res : \E i \in 1..Len(res.labels) :
                                    \E j \in 1..Len(labels) : res.labels[i] = labels[j])
WithoutLabel(list, labels) ==
    SelectSeq(list, LAMBDA res : \A i \in 1..Len(res.labels) :
                                    \A j \in 1..Len(labels) : res.labels[i] # labels[j])

\* C15: filter_resources_labels keeps the resources with one of `labels`
\* when `labels` is not empty; otherwise those with none of `skip_labels`
\* when `skip_labels` is not empty; otherwise the whole list.  With both
\* given, `labels` decides.
C15_LabelsBeforeSkipLabels ==
    op = "filter_labels"
        => filtered.value =
               IF Wanted(teflo_options, S_labels) # <<>>
               THEN WithLabel(res_list, Wanted(teflo_options, S_labels))
               ELSE IF Wanted(teflo_options, S_skip_labels) # <<>>
               THEN WithoutLabel(res_list, Wanted(teflo_options, S_skip_labels))
               ELSE res_list

C15_Witness ==
    /\ op = "filter_labels"
    /\ teflo_options = Options(<< KV(S_labels, <<L_x>>), KV(S_skip_labels, <<L_x>>) >>)
    /\ res_list = << Resource(<<"r", "2">>, <<L_y>>), Resource(<<"r", "3">>, <<L_x, L_y>>) >>
    /\ filtered.value = << Resource(<<"r", "3">>, <<L_x, L_y>>) >>

AfterTrigger(st) == op = "trigger" /\ state = st

\* C16: with state on_demand the filter returns the notifications whose
\* on_demand is true, in the order of the list, whatever the passed and
\* failed tasks and the other flags are.
C16_OnDemand ==
    AfterTrigger("on_demand")
        => /\ filtered.st = "ok"
           /\ filtered.value.t = "list"
           /\ filtered.value.v = SelectSeq(notify_list, LAMBDA n : n.on_demand)
           /\ \A p \in TaskLists, f \in TaskLists :
                  filter_notifications_on_trigger("on_demand", notify_list, p, f) = filtered

C16_Witness ==
    /\ AfterTrigger("on_demand")
    /\ Len(notify_list) = 2
    /\ ~notify_list[1].on_demand /\ notify_list[1].on_start
    /\ notify_list[2].on_demand /\ notify_list[2].on_success
    /\ passed_tasks = <<T_a>> /\ failed_tasks = <<T_b>>
    /\ filtered.value.v = << notify_list[2] >>

\* The notification names one of the tasks.
NamesOneOf(n, tasks) ==
    n.has_on_tasks /\ \E i \in 1..Len(n.on_tasks) : \E j \in 1..Len(tasks) :
                         n.on_tasks[i] = tasks[j]

\* C17: with state on_start the filter returns the notifications that are
\* not on_demand, have on_start true and name one of the passed tasks in
\* on_tasks, in the order of the list; the failed tasks change nothing.
C17_OnStart ==
    AfterTrigger("on_start")
        => /\ filtered.st = "ok"
           /\ filtered.value.t = "list"
           /\ filtered.value.v =
                  SelectSeq(notify_list,
                            LAMBDA n : ~n.on_demand /\ n.on_start
                                          /\ NamesOneOf(n, passed_tasks))
           /\ \A f \in TaskLists :
                  filter_notifications_on_trigger("on_start", notify_list,
                                                  passed_tasks, f) = filtered

C17_Witness ==
    /\ AfterTrigger("on_start")
    /\ Len(notify_list) = 2
    /\ notify_list[1].on_demand /\ notify_list[1].on_start
    /\ ~notify_list[2].on_demand /\ notify_list[2].on_start
    /\ notify_list[2].on_tasks = <<T_a>>
    /\ passed_tasks = <<T_a>> /\ failed_tasks = <<T_a, T_b>>
    /\ filtered.value.v = << notify_list[2] >>

SuccessOnlyFlags(n) == n.on_success /\ ~n.on_failure
FailureOnlyFlags(n) == n.on_failure /\ ~n.on_success
MixedFlags(n) == n.on_success /\ n.on_failure

\* C18: with state on_complete, a returned notification with on_success
\* and not on_failure means that no task failed and that it names a passed
\* task; a returned notification with on_failure and not on_success means
\* that no task passed and that it names a failed task.
C18_OneOutcomeOnly ==
    (AfterTrigger("on_complete") /\ filtered.st = "ok")
        => \A i \in 1..Len(filtered.value.v) :
               LET n == filtered.value.v[i]
               IN  /\ SuccessOnlyFlags(n)
                       => failed_tasks = <<>> /\ NamesOneOf(n, passed_tasks)
                   /\ FailureOnlyFlags(n)
                       => passed_tasks = <<>> /\ NamesOneOf(n, failed_tasks)

C18_Witness ==
    /\ AfterTrigger("on_complete")
    /\ Len(notify_list) = 2
    /\ SuccessOnlyFlags(notify_list[1]) /\ notify_list[1].on_tasks = <<T_a>>
    /\ FailureOnlyFlags(notify_list[2]) /\ notify_list[2].on_tasks = <<T_b>>
    /\ passed_tasks = <<T_a, T_b>> /\ failed_tasks = <<>>
    /\ filtered.st = "ok"
    /\ filtered.value.v = << notify_list[1] >>

\* The notifications of the list that were returned and have the flags.
ReturnedWith(Flags(_)) ==
    SelectSeq(notify_list,
              LAMBDA n : Flags(n) /\ \E i \in 1..Len(filtered.value.v) :
                                        filtered.value.v[i] = n)

\* C19: with state on_complete and notifications that all have on_tasks, a
\* notification with on_success and on_failure, neither on_demand nor
\* on_start, is returned exactly when it names a passed or a failed task;
\* what is returned is the success-only notifications, then the
\* failure-only ones, then the mixed ones, each group in the order of the
\* list and every notification at most once.
C19_MixedAndOrder ==
    (/\ AfterTrigger("on_complete")
     /\ \A i \in 1..Len(notify_list) : notify_list[i].has_on_tasks)
        => /\ filtered.st = "ok"
           /\ filtered.value.t = "list"
           /\ \A i \in 1..Len(notify_list) :
                  LET n == notify_list[i]
                  IN  (MixedFlags(n) /\ ~n.on_demand /\ ~n.on_start)
                          => ((\E j \in 1..Len(filtered.value.v) : filtered.value.v[j] = n)
                                 <=> (NamesOneOf(n, passed_tasks)
                                         \/ NamesOneOf(n, failed_tasks)))
           /\ filtered.value.v = ReturnedWith(SuccessOnlyFlags)
                                     \o ReturnedWith(FailureOnlyFlags)
                                     \o ReturnedWith(MixedFlags)

C19_Witness ==
    /\ AfterTrigger("on_complete")
    /\ Len(notify_list) = 2
    /\ MixedFlags(notify_list[1]) /\ notify_list[1].on_tasks = <<T_a>>
    /\ FailureOnlyFlags(notify_list[2]) /\ notify_list[2].on_tasks = <<T_b>>
    /\ passed_tasks = <<>> /\ failed_tasks = <<T_a, T_b>>
    /\ filtered.st = "ok"
    /\ filtered.value.v = << notify_list[2], notify_list[1] >>

\* C20: for the states on_demand, on_start and on_complete the filter
\* raises nothing and returns a list, whatever the passed and failed tasks
\* and the notifications are, notifications without on_tasks included.
C20_NeverRaises ==
    (op = "trigger" /\ state \in {"on_demand", "on_start", "on_complete"})
        => filtered.st = "ok" /\ filtered.value.t = "list"

----------------------------------------------------------------------------
(* Further properties of the reference resolver *)

\* Is the host among the hosts the last call bound to the task.
Selected(host) ==
    \E i \in 1..Len(task.hosts) :
        task.hosts[i].k = "obj" /\ task.hosts[i].v = host

AllStrings(refs) == \A i \in 1..Len(refs) : IsStr(refs[i])

\* C21: with a reference list of plain strings, a host is selected if and
\* only if "all" is in the list, or the host's name is in the list, or at
\* least one of the host's groups is in the list.
C21_StringModeSelection ==
    (AfterFetchAssets /\ AllStrings(R))
        => \A i \in 1..Len(hosts) :
               Selected(hosts[i])
                   <=> \/ InRefs(S_all, R)
                       \/ InRefs(hosts[i].name, R)
                       \/ \E g \in 1..Len(hosts[i].groups) :
                              InRefs(hosts[i].groups[g], R)

C21_Witness ==
    /\ AfterFetchAssets
    /\ R = << Str(<<"h">>), Str(<<"d">>) >>
    /\ hosts = << H_w1, H_d, H_w >>
    /\ Selected(H_w)
    /\ Selected(H_d)
    /\ ~Selected(H_w1)

\* C22: resolution adds each host at most once: a host that matches for
\* several reasons (two referenced groups, several referenced objects)
\* appears exactly once among the selected hosts.
C22_EachHostOnce ==
    (AfterFetchAssets /\ task.hosts # R)
        => \A i, j \in 1..Len(task.hosts) :
               i # j => task.hosts[i] # task.hosts[j]

\* C23: with a reference list of objects, a host is selected if and only if
\* some referenced object's name equals the host's name or is a non-empty
\* substring of it; an object whose name is empty selects no host.
C23_ObjectModeSelection ==
    (AfterFetchAssets /\ R # <<>> /\ ~AllStrings(R))
        => \A i \in 1..Len(hosts) :
               Selected(hosts[i])
                   <=> \E j \in 1..Len(R) :
                           /\ R[j].v.name # <<>>
                           /\ IsSubstring(R[j].v.name, hosts[i].name)

\* C27: when no execute matches, fetch_executes leaves the task's execute
\* reference list unchanged and sets the task's all_hosts to the full host
\* list; when at least one matches, the execute list is overwritten with the
\* matched executes.
C27_NoMatchFallsBackToAllHosts ==
    AfterFetchExecutes
        => LET found == ReferencedExecutes(prev.executes, prev.task.executes)
           IN  /\ found = <<>> => /\ task.executes = prev.task.executes
                                  /\ task.all_hosts = hosts
               /\ found # <<>> => task.executes = found

C27_Witness ==
    /\ AfterFetchExecutes
    /\ calls = 1
    /\ prev.task.executes = << Str(<<"y">>), Str(<<"e">>) >>
    /\ prev.executes = << E_f, E_x >>
    /\ Len(hosts) = 2
    /\ task.executes = prev.task.executes
    /\ task.all_hosts = hosts

\* C28: host resolution is idempotent over repeated calls: resolving a task
\* (or an execute that fetch_executes resolves again on every call) a second
\* time against the same host list yields the same selected hosts as the
\* first; a host not selected by the first resolution is never added later.
C28_ResolutionIdempotent ==
    [][/\ (op = "fetch_assets" /\ op' = "fetch_assets")
           => task'.hosts = task.hosts
       /\ (op = "fetch_executes" /\ op' = "fetch_executes")
           => \A i \in 1..Len(executes) :
                  executes'[i].hosts = executes[i].hosts]_vars

----------------------------------------------------------------------------
(* Further properties of the injector *)

\* The text holds a word character directly followed by ":".
HasWordColon(s) ==
    \E i \in 1..(Len(s) - 1) : s[i] \in WordChars /\ s[i + 1] = ":"

\* C24: a brace expression whose trimmed content contains a `word:` token
\* anywhere, not only at its beginning (for example after a dotted prefix),
\* is foreign: it is left untouched and no host lookup is attempted for it.
C24_WordColonAnywhere ==
    AfterInject
        => \A k \in 1..Len(parts) :
               (IsExpr(parts[k]) /\ HasWordColon(Trimmed(parts[k])))
                   => result = AroundExcluded(
                                   inject(RenderAll(SubSeq(parts, 1, k - 1)), hosts),
                                   Render(parts[k]),
                                   inject(RenderAll(SubSeq(parts, k + 1, Len(parts))), hosts))

\* A non-excluded expression whose path comes to a string on the hosts.
ResolvesToString(part, hs) ==
    /\ IsExpr(part)
    /\ ~Excluded(Trimmed(part))
    /\ Evaluate(Trimmed(part), hs).k # "raise"
    /\ Evaluate(Trimmed(part), hs).value.t = "str"

\* C25: when inject returns successfully, every non-excluded brace
\* expression of the input whose path resolved to a string has been replaced
\* by that string: no resolved expression is left in the output in its
\* original form, whatever whitespace surrounds it inside the braces.
C25_NoResolvedExpressionLeft ==
    (AfterInject /\ result.st = "ok")
        => \A k \in 1..Len(parts) :
               ResolvesToString(parts[k], hosts)
                   => ~IsSubstring(Render(parts[k]), result.text)

\* Where an expression's path first comes to a string when every segment is
\* taken at its word (as for FirstMissing): the number of that segment and
\* the string; segment 0 when the path misses, fails or ends before.
RECURSIVE FirstString(_, _, _, _)
FirstString(segs, i, host, cur) ==
    IF i > Len(segs) \/ cur.t \notin {"none", "dict"} THEN [seg |-> 0, text |-> <<>>]
    ELSE LET key == segs[i].key
             has == IF cur.t = "none" THEN HasAttr(host, key)
                    ELSE Lookup(cur.v, key) # <<>>
         IN  IF ~has THEN [seg |-> 0, text |-> <<>>]
             ELSE LET v == IF cur.t = "none" THEN GetAttr(host, key)
                           ELSE Lookup(cur.v, key)[1]
                      pos == ParseInt(segs[i].sub)
                      w == IF segs[i].sub = <<>> THEN Got(v)
                           ELSE IF pos.ok THEN SubscriptInt(v, pos.val)
                           ELSE Fault("ValueError")
                  IN  IF w.k # "ok" THEN [seg |-> 0, text |-> <<>>]
                      ELSE IF w.value.t = "str" THEN [seg |-> i, text |-> w.value.v]
                      ELSE FirstString(segs, i + 1, host, w.value)

\* The only expression of the text, the other parts being literal.
OnlyExpression(k) ==
    /\ parts[k].pad_l = SP /\ parts[k].pad_r = SP
    /\ OnKnownHost(parts[k], hosts)
    /\ \A j \in 1..Len(parts) : j # k => parts[j].kind = "lit"

\* C26: path traversal stops as soon as a string value is reached, at any
\* depth (a host attribute, an indexed element, a key of a nested mapping):
\* the remaining segments are ignored and the expression is replaced by
\* that string without error.
C26_StopsAtFirstString ==
    AfterInject
        => \A k \in 1..Len(parts) :
               OnlyExpression(k)
                   => LET s == FirstString(parts[k].segs, 1,
                                           hosts[HostNamed(parts[k].node, hosts)], VNone)
                      IN  s.seg > 0
                              => result = Ok(RenderAll(SubSeq(parts, 1, k - 1))
                                             \o s.text
                                             \o RenderAll(SubSeq(parts, k + 1, Len(parts))))

----------------------------------------------------------------------------
(* Further properties of the notification filter *)

\* Is the notification in the list a call returned.
InReturned(n, r) ==
    /\ r.st = "ok"
    /\ r.value.t = "list"
    /\ \E i \in 1..Len(r.value.v) : r.value.v[i] = n

\* Is the notification returned for a trigger state, with the lists of
\* the state; for the state of the last call this is what it returned.
ReturnedFor(n, st) ==
    IF st = state THEN InReturned(n, filtered)
    ELSE InReturned(n, filter_notifications_on_trigger(st, notify_list,
                                                       passed_tasks, failed_tasks))

\* C30: for fixed passed and failed lists each notification is eligible
\* under at most one trigger state: one returned for on_demand is returned
\* for neither on_start nor on_complete, and one returned for on_start is
\* not returned for on_complete.
C30_OneTriggerState ==
    op = "trigger"
        => \A i \in 1..Len(notify_list) :
               LET n == notify_list[i]
               IN  /\ ReturnedFor(n, "on_demand")
                       => ~ReturnedFor(n, "on_start") /\ ~ReturnedFor(n, "on_complete")
                   /\ ReturnedFor(n, "on_start") => ~ReturnedFor(n, "on_complete")

C30_Witness ==
    /\ AfterTrigger("on_start")
    /\ Len(notify_list) = 2
    /\ notify_list[1].on_demand /\ notify_list[1].on_start
    /\ notify_list[1].on_tasks = <<T_b>>
    /\ ~notify_list[2].on_demand /\ notify_list[2].on_start /\ notify_list[2].on_success
    /\ passed_tasks = <<T_a, T_b>> /\ failed_tasks = <<>>
    /\ filtered.value.v = << notify_list[2] >>
    /\ ReturnedFor(notify_list[1], "on_demand")
    /\ ~ReturnedFor(notify_list[2], "on_complete")

\* The last call was for on_complete and returned a list.
CompleteReturned == AfterTrigger("on_complete") /\ filtered.st = "ok"

ReturnsSome(Flags(_)) ==
    \E i \in 1..Len(filtered.value.v) : Flags(filtered.value.v[i])

\* C29: in every run in which the driver only appends to the passed and
\* failed lists: once the failed list is non-empty no later on_complete
\* call returns a success-only notification, once the passed list is
\* non-empty no later on_complete call returns a failure-only one, and no
\* on_complete result holds a success-only and a failure-only notification.
C29_OutcomesNeverMix ==
    /\ [](failed_tasks # <<>>
            => [](CompleteReturned => ~ReturnsSome(SuccessOnlyFlags)))
    /\ [](passed_tasks # <<>>
            => [](CompleteReturned => ~ReturnsSome(FailureOnlyFlags)))
    /\ [](CompleteReturned
            => ~(ReturnsSome(SuccessOnlyFlags) /\ ReturnsSome(FailureOnlyFlags)))

C29_Witness ==
    /\ CompleteReturned
    /\ Len(notify_list) = 2
    /\ SuccessOnlyFlags(notify_list[1]) /\ notify_list[1].on_tasks = <<T_a>>
    /\ FailureOnlyFlags(notify_list[2]) /\ notify_list[2].on_tasks = <<T_b>>
    /\ passed_tasks = <<T_a>> /\ failed_tasks = <<T_b>>
    /\ filtered.value.v = <<>>

====
